---------------------------- MODULE Spec2Model ----------------------------
(***************************************************************************)
(* Model of the "Texture Paint Bake" Blender add-on: the modal bake        *)
(* operator (operators/texture_baker.py), the cancel and toggle-preview    *)
(* operators, the panel that offers them, and the TextureProjector         *)
(* (utils/projector.py) with its temporary render artifacts.               *)
(*                                                                         *)
(* The host (Blender) is modelled only as far as the add-on relies on it:  *)
(*  - bpy.data.images: the set of image datablocks, by name;               *)
(*  - the temp directory and the files in it;                              *)
(*  - the window manager's timers and modal handlers;                      *)
(*  - the event loop: every input event is offered to the running modal    *)
(*    handlers before the panel sees it.                                   *)
(***************************************************************************)
EXTENDS Integers, Sequences, FiniteSets, TLC

\* ------------------------------------------------------------------ bounds
\* Number of operator instances that can be alive at once.
MaxOps == 2
\* Last clock second of the model (time.time() truncated to seconds).
MaxClock == 1

Ops == 1..MaxOps
Seconds == 0..MaxClock
None == "None"

\* ------------------------------------------------------- program constants
\* TextureProjector.generate_camera_angles: three view categories, four
\* cardinal azimuths each, category-major.
ViewTypes == <<"below", "total", "upper">>
HAngles == <<0, 90, 180, 270>>

RECURSIVE AnglesFrom(_, _)
AnglesFrom(v, h) ==
    IF v > Len(ViewTypes) THEN <<>>
    ELSE IF h > Len(HAngles) THEN AnglesFrom(v + 1, 1)
    ELSE <<<<ViewTypes[v], HAngles[h]>>>> \o AnglesFrom(v, h + 1)

\* A variant that walks the azimuths in the outer loop.
AzimuthMajorAngles ==
    [i \in 1..(Len(ViewTypes) * Len(HAngles)) |->
        <<ViewTypes[((i - 1) % Len(ViewTypes)) + 1],
          HAngles[((i - 1) \div Len(ViewTypes)) + 1]>>]

generate_camera_angles == AnglesFrom(1, 1)

\* execute, single shot mode: self._camera_angles = [(None, 0)]
SingleShotAngles == <<<<None, 0>>>>

\* EEVEEBakerPreferences defaults (the values "configured in the addon
\* preferences" for each preset).
Preferences ==
    [FAST     |-> [taa |-> 0,  shadow |-> "128"],
     BALANCED |-> [taa |-> 16, shadow |-> "512"],
     HIGH     |-> [taa |-> 32, shadow |-> "1024"]]

QualityPresets == {"FAST", "BALANCED", "HIGH"}

VARIABLES
    \* scene.eevee_baker (EEVEEBakerProperties)
    is_baking, should_cancel, progress, total_steps, auto_bake,
    quality_preset, show_bake,
    \* scene.eevee: [taa, cube, cascade]
    eevee,
    \* per operator instance (EEVEE_OT_TextureBaker and its projector)
    status,          \* "none" | "running" | "finished" | "cancelled" | "errored"
    result,          \* what the instance's last execute/modal call returned
    timer,           \* self._timer is set
    projector,       \* self.projector is set
    settings,        \* <<self.projector.settings>>, <<>> without projector
    camera,          \* self.projector.camera is set
    angles,          \* self._camera_angles
    idx,             \* self._current_angle_index
    shots,           \* the angles handed to project_texture, in order
    temp_files,      \* projector.temp_files: {<<name second, path second>>}
    original_nodes,  \* projector.original_nodes[mat]: <<>> or <<output_connection>>
    \* host
    wm_timers,       \* operators whose event timer is registered
    scene_camera,    \* the operator whose "BakeCamera" object exists ({} if none)
    images,          \* seconds s with an image datablock "<prefix>_s"
    dup_images,      \* an image datablock "<prefix>_s.00N" exists
    files,           \* seconds s with a file temp_render_s.png
    temp_dir,        \* the temp directory exists
    now,             \* int(time.time())
    \* the active object's first material
    materials,       \* obj.data.materials is not empty
    nodes,           \* names of the nodes of mat.node_tree
    surface_link,    \* <<>> or <<from node, output socket index>>
    original_connection,  \* mat["original_connection"]: <<>> or <<node, socket>>
    \* history
    cleanup_log,     \* what the projector cleanup of the latest step met
    cleared_stale_cancel,  \* the latest step was an execute that started a
                     \* bake with should_cancel set and no operator running
    pre_on_link      \* Surface link before the latest toggle-on, <<"?">> if unknown

propsVars == <<is_baking, should_cancel, progress, total_steps, auto_bake,
               quality_preset, show_bake>>
opVars == <<status, result, timer, projector, settings, camera, angles, idx,
            shots, temp_files, original_nodes>>
hostVars == <<eevee, wm_timers, scene_camera, images, dup_images, files,
              temp_dir, now>>
matVars == <<materials, nodes, surface_link, original_connection>>
vars == <<propsVars, opVars, hostVars, matVars, cleanup_log,
          cleared_stale_cancel, pre_on_link>>


\* ------------------------------------------------------------ pure helpers
NoLink == <<>>
Unknown == <<"?">>
BakeTex == "Bake_Texture"
BakeUV == "Bake_UV"
MatOutput == "Material Output"
Principled == "Principled BSDF"
Emission == "Emission"

\* len(node.outputs) of the nodes a material may hold.
NumOutputs(n) == IF n = BakeTex THEN 2 ELSE IF n = BakeUV THEN 1
                 ELSE IF n = MatOutput THEN 0 ELSE 1

\* execute: "Apply quality preset settings from preferences".
ApplyQualityPreset(q) ==
    IF q = "FAST"
    THEN [taa |-> Preferences.FAST.taa, cube |-> Preferences.FAST.shadow,
          cascade |-> Preferences.FAST.shadow]
    ELSE IF q = "BALANCED"
    THEN [taa |-> Preferences.BALANCED.taa, cube |-> Preferences.BALANCED.shadow,
          cascade |-> Preferences.BALANCED.shadow]
    ELSE [taa |-> 32, cube |-> "1024", cascade |-> Preferences.HIGH.shadow]

\* TextureProjector.optimize_render_settings, called by __init__.
optimize_render_settings == [taa |-> 8, cube |-> "512", cascade |-> "512"]

\* ProjectionSettings(...): the dataclass with its field defaults.
ProjectionSettings(res, name, folder, bleed) ==
    [resolution |-> res, uv_map_name |-> "Bake_UV", image_name |-> name,
     camera_name |-> "BakeCamera", seam_bleed |-> bleed, angle_offset |-> 30,
     render_view_prefix |-> "EEVEE Bake Test_Model", output_folder |-> folder,
     temp_folder |-> "temp_renders"]

\* execute: the settings of the run, built from the panel's resolution,
\* file_name, output_directory (made absolute) and seam_bleed, which keep
\* their defaults here.
NewSettings ==
    ProjectionSettings(4096, "Bake_Texture", "/blend/texture_projections", 2)

\* A variant of project_texture whose assignments go to the projector's
\* settings instead of the image paint settings.
SettingsOverwrittenByProjection(s) ==
    [s EXCEPT !.seam_bleed = 0, !.resolution = 0]

\* self.settings after project_texture: the method copies seam_bleed and
\* resolution from it into the scene's image paint settings (its local name
\* `settings`) and assigns nothing to it.
SettingsAfterProjection(s) == s

\* The setup steps of execute, in the order they run; "none": all succeed.
SetupSteps == <<"prefs_lookup", "prefs_none", "projector", "uv_map",
                "bake_image", "material_nodes", "camera", "timer", "none">>
SetupFailures == {SetupSteps[i] : i \in 1..Len(SetupSteps)}
StepNo(f) == CHOOSE i \in 1..Len(SetupSteps) : SetupSteps[i] = f
\* The step named `step` ran to its end when the setup fails at `fail`.
Passed(fail, step) == StepNo(fail) > StepNo(step)

\* What can happen to one tracked artifact in TextureProjector.cleanup.
CleanupOutcomes == {"ok", "image_error", "file_error"}

\* The choices cleanup can meet for the tracked artifacts tf: an error in the
\* image part needs the image to be there, one in os.remove needs the file.
CleanupChoices(tf, imgs, fls) ==
    {f \in [tf -> CleanupOutcomes] :
        \A e \in tf : /\ f[e] = "image_error" => e[1] \in imgs
                      /\ f[e] = "file_error" => e[2] \in fls}

\* A variant of cleanup without the try inside the loop: the first error ends
\* it, nothing collected is removed and the list is not cleared.
UnguardedCleanup(tf, f, rmdir_error, imgs, fls, dir) ==
    IF \E e \in tf : f[e] # "ok"
    THEN [images |-> imgs, files |-> fls, temp_files |-> tf, temp_dir |-> dir,
          log |-> [entries |-> {<<e, f[e]>> : e \in tf}, rmdir_error |-> FALSE]]
    ELSE LET files2 == fls \ {e[2] : e \in tf}
         IN  [images |-> imgs \ {e[1] : e \in tf},
              files |-> files2,
              temp_files |-> {},
              temp_dir |-> IF dir /\ files2 = {} THEN rmdir_error ELSE dir,
              log |-> [entries |-> {<<e, f[e]>> : e \in tf},
                       rmdir_error |-> dir /\ files2 = {} /\ rmdir_error]]

\* TextureProjector.cleanup on the tracked artifacts tf, with the images
\* imgs, the files fls and the temp directory (dir: it exists); f says what
\* happens to each artifact and rmdir_error whether os.rmdir raises. An error
\* inside the loop's try skips the rest of that artifact only; the images
\* collected before it are removed by batch_remove; the list is cleared.
projector_cleanup(tf, f, rmdir_error, imgs, fls, dir) ==
    LET batch == {e[1] : e \in {x \in tf : f[x] # "image_error"}} \cap imgs
        removed == {e[2] : e \in {x \in tf : f[x] = "ok"}} \cap fls
        files2 == fls \ removed
    IN  [images |-> imgs \ batch,
         files |-> files2,
         temp_files |-> {},
         temp_dir |-> IF dir /\ files2 = {} THEN rmdir_error ELSE dir,
         log |-> [entries |-> {<<e, f[e]>> : e \in tf},
                  rmdir_error |-> dir /\ files2 = {} /\ rmdir_error]]

\* No projector cleanup ran.
NoCleanup == [entries |-> {}, rmdir_error |-> FALSE]

\* The object a bake operator's projector.camera refers to still exists.
CameraValid(o) == camera[o] /\ scene_camera = {o}

\* A variant of cleanup that removes the camera in either mode.
CleanupRemovesCameraAlways(o) == projector[o] /\ camera[o]

\* EEVEE_OT_TextureBaker.cleanup removes the camera in auto-bake mode.
CleanupRemovesCamera(o) == projector[o] /\ auto_bake /\ camera[o]
\* ... and bpy.data.objects.remove raises on a reference to a removed object.
CleanupRaises(o) == CleanupRemovesCamera(o) /\ ~CameraValid(o)

\* ----------------------------------------------------------------- Init
\* The add-on registered, nothing run yet: the property defaults, Blender's
\* EEVEE defaults, no operator instance, no artifact.
Registered ==
    /\ is_baking = FALSE /\ should_cancel = FALSE
    /\ progress = 0 /\ total_steps = 0
    /\ auto_bake = TRUE
    /\ quality_preset = "BALANCED"
    /\ show_bake = FALSE
    /\ eevee = [taa |-> 64, cube |-> "512", cascade |-> "1024"]
    /\ status = [o \in Ops |-> "none"]
    /\ result = [o \in Ops |-> None]
    /\ timer = [o \in Ops |-> FALSE]
    /\ projector = [o \in Ops |-> FALSE]
    /\ settings = [o \in Ops |-> <<>>]
    /\ camera = [o \in Ops |-> FALSE]
    /\ angles = [o \in Ops |-> <<>>]
    /\ idx = [o \in Ops |-> 0]
    /\ shots = [o \in Ops |-> <<>>]
    /\ temp_files = [o \in Ops |-> {}]
    /\ original_nodes = [o \in Ops |-> <<>>]
    /\ wm_timers = {} /\ scene_camera = {}
    /\ images = {} /\ dup_images = FALSE /\ files = {}
    /\ temp_dir = FALSE
    /\ original_connection = NoLink
    /\ cleanup_log = NoCleanup
    /\ cleared_stale_cancel = FALSE
    /\ pre_on_link = Unknown

\* The active mesh has no material yet, or one whose shader feeds the output.
Init ==
    /\ Registered
    /\ now = 0
    /\ materials \in BOOLEAN
    /\ nodes = IF materials THEN {MatOutput, Principled, Emission} ELSE {}
    /\ surface_link = IF materials THEN <<Principled, 0>> ELSE NoLink


\* ------------------------------------------------------------ the host
\* A variant of the host in which the panel acts on a click before the
\* running modal handlers have seen an event.
PanelActsFirst == TRUE

\* Every input event (a click on the panel, a key, a mouse move) is offered
\* to the running modal handlers first; a handler that finds should_cancel
\* set ends its operator on that event, so the panel acts on an event only
\* when no running bake operator has a cancellation pending.
PanelGetsEvents == ~(should_cancel /\ \E o \in Ops : status[o] = "running")

\* A new operator instance takes the first slot no running instance holds.
FreeSlot(o) ==
    /\ status[o] # "running"
    /\ \A p \in Ops : p < o => status[p] = "running"

\* The host drops an operator instance when it ends. The model keeps the
\* fields of an ended instance for the state it ended in and forgets them at
\* the next user operation: Kept(f, d) is field f with the ended instances'
\* values replaced by the class default d.
Ended(o) == status[o] \in {"finished", "cancelled", "errored"}
Kept(f, d) == [o \in Ops |-> IF Ended(o) THEN d ELSE f[o]]
\* A timer is tracked as long as the instance that registered it.
KeptTimers == {o \in wm_timers : ~Ended(o)}
ForgetEnded ==
    /\ status' = Kept(status, "none")
    /\ result' = Kept(result, None)
    /\ timer' = Kept(timer, FALSE)
    /\ projector' = Kept(projector, FALSE)
    /\ settings' = Kept(settings, <<>>)
    /\ camera' = Kept(camera, FALSE)
    /\ angles' = Kept(angles, <<>>)
    /\ idx' = Kept(idx, 0)
    /\ shots' = Kept(shots, <<>>)
    /\ temp_files' = Kept(temp_files, {})
    /\ original_nodes' = Kept(original_nodes, <<>>)
    /\ wm_timers' = KeptTimers

\* ------------------------------------------- TextureProjector.setup_material_nodes
\* "Store original node setup if not already stored": rec is the projector's
\* entry for the material (<<>>: none), link the Surface link it sees.
CaptureOriginalNodes(rec, link) ==
    IF rec = <<>>
    THEN <<IF link = NoLink THEN None ELSE link[1]>>
    ELSE rec

\* setup_material_nodes on a projector whose entry for the material is rec:
\* a missing material is created (with Blender's default node tree), the
\* original setup is captured, the bake nodes are added.
setup_material_nodes(rec) ==
    LET link == IF materials THEN surface_link ELSE <<Principled, 0>>
        tree == IF materials THEN nodes ELSE {MatOutput, Principled}
    IN  [materials |-> TRUE,
         nodes |-> tree \cup {BakeUV, BakeTex},
         surface_link |-> link,
         original_nodes |-> CaptureOriginalNodes(rec, link)]

\* ---------------------------------------------------------------- execute
\* A variant of execute that leaves should_cancel as it finds it.
CancelFlagKept == should_cancel

\* execute: "props.should_cancel = False"
CancelFlagAtStart == FALSE

\* EEVEE_OT_TextureBaker.execute, with the setup step that raises (fail) and
\* whether os.rmdir raises in the cleanup of a failed setup.
ExecuteBody(o, fail, rmdir_error) ==
    LET mat == setup_material_nodes(<<>>)
        reachedCam == Passed(fail, "material_nodes")
        ok == fail = "none"
        c == projector_cleanup({}, <<>>, rmdir_error, images, files, TRUE)
        cams == IF auto_bake THEN generate_camera_angles ELSE SingleShotAngles
    IN
    /\ progress' = 0
    /\ should_cancel' = CancelFlagAtStart
    \* "return {'CANCELLED'}" without cleanup when preferences is falsy
    /\ is_baking' = (ok \/ fail = "prefs_none")
    /\ eevee' = IF Passed(fail, "projector") THEN optimize_render_settings
                ELSE IF Passed(fail, "prefs_none")
                THEN ApplyQualityPreset(quality_preset)
                ELSE eevee
    /\ projector' = [Kept(projector, FALSE) EXCEPT ![o] = Passed(fail, "projector")]
    /\ settings' = [Kept(settings, <<>>) EXCEPT ![o] =
                      IF Passed(fail, "projector") THEN <<NewSettings>> ELSE <<>>]
    /\ temp_dir' = IF ~Passed(fail, "projector") THEN temp_dir
                   ELSE IF ok THEN TRUE
                   ELSE c.temp_dir
    /\ cleanup_log' = IF Passed(fail, "projector") /\ ~ok THEN c.log ELSE NoCleanup
    /\ cleared_stale_cancel' =
          (ok /\ should_cancel /\ \A p \in Ops : status[p] # "running")
    /\ IF Passed(fail, "material_nodes")
       THEN /\ materials' = mat.materials
            /\ nodes' = mat.nodes
            /\ surface_link' = mat.surface_link
            /\ original_nodes' = [Kept(original_nodes, <<>>) EXCEPT ![o] =
                                     mat.original_nodes]
       ELSE /\ UNCHANGED <<materials, nodes, surface_link>>
            /\ original_nodes' = [Kept(original_nodes, <<>>) EXCEPT ![o] = <<>>]
    /\ UNCHANGED <<original_connection, show_bake>>
    /\ camera' = [Kept(camera, FALSE) EXCEPT ![o] = Passed(fail, "camera")]
    /\ scene_camera' = IF ~reachedCam THEN scene_camera
                       ELSE IF fail = "camera" THEN {}
                       ELSE IF fail = "timer" /\ auto_bake THEN {}
                       ELSE {o}
    /\ angles' = [Kept(angles, <<>>) EXCEPT ![o] =
                    IF Passed(fail, "camera") THEN cams ELSE <<>>]
    /\ total_steps' = IF Passed(fail, "camera") THEN Len(cams) ELSE total_steps
    /\ timer' = [Kept(timer, FALSE) EXCEPT ![o] = ok]
    /\ wm_timers' = IF ok THEN KeptTimers \cup {o} ELSE KeptTimers
    /\ status' = [Kept(status, "none") EXCEPT ![o] =
                    IF ok THEN "running" ELSE "cancelled"]
    /\ result' = [Kept(result, None) EXCEPT ![o] =
                    IF ok THEN "RUNNING_MODAL" ELSE "CANCELLED"]
    /\ idx' = [Kept(idx, 0) EXCEPT ![o] = 0]
    /\ shots' = [Kept(shots, <<>>) EXCEPT ![o] = <<>>]
    /\ temp_files' = [Kept(temp_files, {}) EXCEPT ![o] = {}]
    /\ UNCHANGED <<auto_bake, quality_preset, images, dup_images, files, now>>
    /\ pre_on_link' = pre_on_link

\* The Bake button: the panel draws it only while is_baking is false.
Execute(o) ==
    /\ ~is_baking
    /\ PanelGetsEvents
    /\ FreeSlot(o)
    /\ \E fail \in SetupFailures, rmdir_error \in BOOLEAN :
          ExecuteBody(o, fail, rmdir_error)


\* ------------------------------------------------------------------ modal
\* What can happen while one angle is processed. The first three raise out
\* of modal (position_camera, setup_viewport, and project_texture's
\* object_mode / view3d_context raise); create_temp_render and the
\* projection catch their own errors.
AngleOutcomes == {"ok", "position_error", "viewport_error", "paint_mode_error",
                  "render_error", "project_error"}
SingleOutcomes == {"ok", "paint_mode_error", "render_error", "project_error"}
Raising == {"position_error", "viewport_error", "paint_mode_error"}

\* TextureProjector.create_temp_render for operator o: the path is named
\* after the second the call starts in (now), the image after the second
\* the render ends in (name_sec). A render that fails leaves nothing.
\* Blender gives a new datablock whose name is taken a ".00N" suffix.
create_temp_render(o, rendered, name_sec) ==
    IF rendered
    THEN [images |-> images \cup {name_sec},
          dup_images |-> dup_images \/ name_sec \in images,
          files |-> files \cup {now},
          temp_files |-> temp_files[o] \cup {<<name_sec, now>>},
          temp_dir |-> TRUE,
          now |-> name_sec]
    ELSE [images |-> images, dup_images |-> dup_images, files |-> files,
          temp_files |-> temp_files[o], temp_dir |-> temp_dir, now |-> now]

\* EEVEE_OT_TextureBaker.cleanup of a running operator o, on the artifacts
\* as record r holds them.
OperatorCleanup(o, r, f, rmdir_error) ==
    LET c == projector_cleanup(r.temp_files, f, rmdir_error,
                               r.images, r.files, r.temp_dir)
    IN
    /\ is_baking' = FALSE
    /\ wm_timers' = IF timer[o] THEN wm_timers \ {o} ELSE wm_timers
    /\ images' = c.images
    /\ files' = c.files
    /\ temp_dir' = c.temp_dir
    /\ temp_files' = [temp_files EXCEPT ![o] = c.temp_files]
    /\ cleanup_log' = c.log
    /\ cleared_stale_cancel' = FALSE
    /\ dup_images' = r.dup_images
    /\ now' = r.now
    /\ scene_camera' = IF CleanupRemovesCamera(o) /\ CameraValid(o) THEN {}
                       ELSE scene_camera

Current(o) == [images |-> images, dup_images |-> dup_images, files |-> files,
               temp_files |-> temp_files[o], temp_dir |-> temp_dir, now |-> now]

\* The operator ends: by a return value, or by an exception the host reports.
Ends(o, how, ret) ==
    /\ status' = [status EXCEPT ![o] = how]
    /\ result' = [result EXCEPT ![o] = ret]

\* event.type: 'TIMER', or any other type.
Events == {"TIMER", "OTHER"}

Delivered(o, ev) ==
    /\ status[o] = "running"
    /\ ev = "TIMER" => wm_timers # {}

\* A variant of modal that tests should_cancel inside the TIMER branch only.
CancelPolledOnTimer(ev) == should_cancel /\ ev = "TIMER"

\* modal: "if props.should_cancel:", ahead of the test of the event's type.
CancelPolled(ev) == should_cancel

\* A variant of modal that steps over an angle.
SkipAngleIndex(i) == i + 2

\* A variant of modal without the single shot branch.
SingleShotNever == FALSE

\* modal: "if not props.auto_bake:", the single shot branch of a timer event.
SingleShot == ~auto_bake

\* A variant of modal that takes the sequence for done one angle early.
AnglesLeftButOne(o) == idx[o] < Len(angles[o]) - 1

\* modal: the negation of "self._current_angle_index >= len(self._camera_angles)"
AnglesLeft(o) == idx[o] < Len(angles[o])

\* modal: "self._current_angle_index += 1"
NextAngleIndex(i) == i + 1

\* "if props.should_cancel:" on any event ev, a timer event or another.
ModalCancel(o, ev) ==
    \E rmdir_error \in BOOLEAN,
       f \in CleanupChoices(temp_files[o], images, files) :
       /\ Delivered(o, ev)
       /\ CancelPolled(ev)
       /\ OperatorCleanup(o, Current(o), f, rmdir_error)
       /\ IF CleanupRaises(o)
          THEN /\ Ends(o, "errored", "EXCEPTION")
               /\ should_cancel' = should_cancel
          ELSE /\ Ends(o, "finished", "FINISHED")
               /\ should_cancel' = FALSE
       /\ UNCHANGED <<progress, total_steps, auto_bake, quality_preset,
                      show_bake, eevee, timer, projector, settings, camera,
                      angles, idx, shots, original_nodes, matVars,
                      pre_on_link>>

\* A timer event in single shot mode: project from the current view, clean up.
ModalSingle(o) ==
    \E outcome \in SingleOutcomes, name_sec \in now..MaxClock,
       rmdir_error \in BOOLEAN :
       LET r == create_temp_render(o, outcome \in {"ok", "project_error"}, name_sec)
       IN
       /\ Delivered(o, "TIMER")
       /\ ~CancelPolled("TIMER")
       /\ SingleShot
       /\ shots' = [shots EXCEPT ![o] = Append(@, <<"current_view", 0>>)]
       /\ settings' = [settings EXCEPT ![o] = <<SettingsAfterProjection(@[1])>>]
       /\ IF outcome \in Raising
          THEN /\ Ends(o, "errored", "EXCEPTION")
               /\ cleanup_log' = NoCleanup
               /\ cleared_stale_cancel' = FALSE
               /\ UNCHANGED <<is_baking, wm_timers, images, dup_images, files,
                              temp_dir, temp_files, now, scene_camera>>
          ELSE /\ \E f \in CleanupChoices(r.temp_files, r.images, r.files) :
                      OperatorCleanup(o, r, f, rmdir_error)
               /\ Ends(o, "finished", "FINISHED")
       /\ UNCHANGED <<should_cancel, progress, total_steps, auto_bake,
                      quality_preset, show_bake, eevee, timer, projector,
                      camera, angles, idx, original_nodes, matVars,
                      pre_on_link>>

\* A timer event after the last angle: clean up and finish.
ModalFinish(o) ==
    \E rmdir_error \in BOOLEAN,
       f \in CleanupChoices(temp_files[o], images, files) :
       /\ Delivered(o, "TIMER")
       /\ ~CancelPolled("TIMER")
       /\ ~SingleShot
       /\ ~AnglesLeft(o)
       /\ OperatorCleanup(o, Current(o), f, rmdir_error)
       /\ IF CleanupRaises(o)
          THEN Ends(o, "errored", "EXCEPTION")
          ELSE Ends(o, "finished", "FINISHED")
       /\ UNCHANGED <<should_cancel, progress, total_steps, auto_bake,
                      quality_preset, show_bake, eevee, timer, projector, settings,
                      camera, angles, idx, shots, original_nodes, matVars,
                      pre_on_link>>

\* A timer event with angles left: "Process next angle".
ModalAngle(o) ==
    \E outcome \in AngleOutcomes, name_sec \in now..MaxClock :
       LET \* position_camera works on a camera object that is gone
           eff == IF CameraValid(o) THEN outcome ELSE "position_error"
           angle == angles[o][idx[o] + 1]
           attempted == eff \notin {"position_error", "viewport_error"}
           r == create_temp_render(o, eff \in {"ok", "project_error"}, name_sec)
       IN
       /\ Delivered(o, "TIMER")
       /\ ~CancelPolled("TIMER")
       /\ ~SingleShot
       /\ AnglesLeft(o)
       /\ shots' = [shots EXCEPT ![o] = IF attempted THEN Append(@, angle) ELSE @]
       /\ settings' = [settings EXCEPT ![o] =
                         IF attempted THEN <<SettingsAfterProjection(@[1])>>
                         ELSE @]
       /\ images' = r.images
       /\ dup_images' = r.dup_images
       /\ files' = r.files
       /\ temp_dir' = r.temp_dir
       /\ now' = r.now
       /\ temp_files' = [temp_files EXCEPT ![o] = r.temp_files]
       /\ IF eff \in Raising
          THEN /\ Ends(o, "errored", "EXCEPTION")
               /\ UNCHANGED <<progress, total_steps, idx>>
          ELSE /\ progress' = idx[o] + 1
               /\ total_steps' = Len(angles[o])
               /\ idx' = [idx EXCEPT ![o] = NextAngleIndex(@)]
               /\ result' = [result EXCEPT ![o] = "PASS_THROUGH"]
               /\ status' = status
       /\ UNCHANGED <<is_baking, should_cancel, auto_bake, quality_preset,
                      show_bake, eevee, timer, projector, camera, angles,
                      original_nodes, wm_timers, scene_camera, matVars,
                      pre_on_link>>
       /\ cleanup_log' = NoCleanup
       /\ cleared_stale_cancel' = FALSE

\* Any other event while no cancellation is pending: nothing happens.
ModalPassThrough(o) ==
    /\ Delivered(o, "OTHER")
    /\ ~CancelPolled("OTHER")
    /\ result' = [result EXCEPT ![o] = "PASS_THROUGH"]
    /\ cleanup_log' = NoCleanup
    /\ cleared_stale_cancel' = FALSE
    /\ UNCHANGED <<propsVars, status, timer, projector, settings, camera, angles, idx,
                   shots, temp_files, original_nodes, hostVars, matVars,
                   pre_on_link>>

\* EEVEE_OT_TextureBaker.modal
Modal(o) ==
    \/ \E ev \in Events : ModalCancel(o, ev)
    \/ ModalSingle(o)
    \/ ModalFinish(o)
    \/ ModalAngle(o)
    \/ ModalPassThrough(o)

\* ------------------------------------------------------- the other operators
\* EEVEE_OT_CancelBake.execute
CancelBakeBody ==
    /\ should_cancel' = TRUE
    /\ is_baking' = FALSE
    /\ progress' = 0
    /\ cleanup_log' = NoCleanup
    /\ cleared_stale_cancel' = FALSE
    /\ ForgetEnded
    /\ UNCHANGED <<total_steps, auto_bake, quality_preset, show_bake, eevee,
                   scene_camera, images, dup_images, files, temp_dir, now,
                   matVars, pre_on_link>>

\* The Cancel button: the panel draws it only while is_baking is true.
CancelBake ==
    /\ is_baking
    /\ PanelGetsEvents
    /\ CancelBakeBody

\* The panel's auto_bake and quality_preset rows, enabled while not baking.
SetAutoBake ==
    /\ ~is_baking
    /\ PanelGetsEvents
    /\ auto_bake' = ~auto_bake
    /\ cleanup_log' = NoCleanup
    /\ cleared_stale_cancel' = FALSE
    /\ ForgetEnded
    /\ UNCHANGED <<is_baking, should_cancel, progress, total_steps,
                   quality_preset, show_bake, eevee, scene_camera, images,
                   dup_images, files, temp_dir, now, matVars, pre_on_link>>

SetQualityPreset ==
    /\ ~is_baking
    /\ PanelGetsEvents
    /\ \E q \in QualityPresets \ {quality_preset} : quality_preset' = q
    /\ cleanup_log' = NoCleanup
    /\ cleared_stale_cancel' = FALSE
    /\ ForgetEnded
    /\ UNCHANGED <<is_baking, should_cancel, progress, total_steps, auto_bake,
                   show_bake, eevee, scene_camera, images, dup_images, files,
                   temp_dir, now, matVars, pre_on_link>>

\* The clock reaches the next second.
Tick ==
    /\ now < MaxClock
    /\ now' = now + 1
    /\ cleanup_log' = NoCleanup
    /\ cleared_stale_cancel' = FALSE
    /\ UNCHANGED <<propsVars, opVars, eevee, wm_timers, scene_camera, images,
                   dup_images, files, temp_dir, matVars, pre_on_link>>

Next ==
    \/ \E o \in Ops : Execute(o)
    \/ \E o \in Ops, ev \in Events : ModalCancel(o, ev)
    \/ \E o \in Ops : ModalSingle(o)
    \/ \E o \in Ops : ModalFinish(o)
    \/ \E o \in Ops : ModalAngle(o)
    \/ \E o \in Ops : ModalPassThrough(o)
    \/ CancelBake
    \/ SetAutoBake
    \/ Tick

Spec == Init /\ [][Next]_vars

\* The window manager keeps delivering events (the operator's own timer
\* fires every 0.1 s) to a running modal handler.
EventsKeepComing == \A o \in Ops : WF_vars(Modal(o))

\* SpecLive: the bake driven from the panel, with events that keep coming.
\* The clock only names the temporary artifacts; it stands at one second.
InitLive ==
    /\ Registered
    /\ now = MaxClock
    /\ materials \in BOOLEAN
    /\ nodes = IF materials THEN {MatOutput, Principled, Emission} ELSE {}
    /\ surface_link = IF materials THEN <<Principled, 0>> ELSE NoLink

NextLive ==
    \/ \E o \in Ops : Execute(o)
    \/ \E o \in Ops, ev \in Events : ModalCancel(o, ev)
    \/ \E o \in Ops : ModalSingle(o)
    \/ \E o \in Ops : ModalFinish(o)
    \/ \E o \in Ops : ModalAngle(o)
    \/ \E o \in Ops : ModalPassThrough(o)
    \/ CancelBake
    \/ SetAutoBake

SpecLive == InitLive /\ [][NextLive]_vars /\ EventsKeepComing


\* SpecProgress: the bake driven from the panel, the progress slider included.
\* While is_baking the panel draws props.progress as a slider in a row that
\* is not disabled; the property has min=0 and no max, so the user can set
\* it to any value from 0 up. Some values below and above the number of
\* angles stand for them.
SliderValues == {0, 1, Len(generate_camera_angles) + 1}

SetProgress ==
    /\ is_baking
    /\ PanelGetsEvents
    /\ \E p \in SliderValues \ {progress} : progress' = p
    /\ cleanup_log' = NoCleanup
    /\ cleared_stale_cancel' = FALSE
    /\ ForgetEnded
    /\ UNCHANGED <<is_baking, should_cancel, total_steps, auto_bake,
                   quality_preset, show_bake, eevee, scene_camera, images,
                   dup_images, files, temp_dir, now, matVars, pre_on_link>>

NextProgress ==
    \/ NextLive
    \/ SetProgress

SpecProgress == InitLive /\ [][NextProgress]_vars


\* SpecScripted: the operators called from a script (the Python console,
\* another add-on, an application timer). Neither operator class declares a
\* poll method, so a script can call either at any time, also between two
\* events, and a bake can start while another one runs. Events keep being
\* delivered to every running modal handler.
ExecuteScripted(o) ==
    /\ FreeSlot(o)
    /\ \E fail \in SetupFailures, rmdir_error \in BOOLEAN :
          ExecuteBody(o, fail, rmdir_error)

CancelScripted == CancelBakeBody

\* The script runs on a mesh with a material, with the clock at any second.
InitScripted ==
    /\ Registered
    /\ now = MaxClock
    /\ materials = TRUE
    /\ nodes = {MatOutput, Principled, Emission}
    /\ surface_link = <<Principled, 0>>

NextScripted ==
    \/ \E o \in Ops : ExecuteScripted(o)
    \/ CancelScripted
    \/ \E o \in Ops, ev \in Events : ModalCancel(o, ev)
    \/ \E o \in Ops : ModalFinish(o)
    \/ \E o \in Ops : ModalAngle(o)
    \/ \E o \in Ops : ModalPassThrough(o)

SpecScripted == InitScripted /\ [][NextScripted]_vars /\ EventsKeepComing


\* SpecQuality: the bake with the quality preset chosen on the panel.
InitQuality ==
    /\ Init
    /\ materials

NextQuality ==
    \/ \E o \in Ops : Execute(o)
    \/ \E o \in Ops, ev \in Events : ModalCancel(o, ev)
    \/ \E o \in Ops : ModalFinish(o)
    \/ \E o \in Ops : ModalAngle(o)
    \/ CancelBake
    \/ SetQualityPreset

SpecQuality == InitQuality /\ [][NextQuality]_vars

\* --------------------------------------------------------- the bake preview
\* EEVEE_OT_ToggleBakePreview.is_bake_texture_connected
is_bake_texture_connected(link) == link # NoLink /\ link[1] = BakeTex

\* A variant that saves the connection at every toggle-on.
SaveLatestConnection(rec, link) ==
    IF link # NoLink /\ link[1] # BakeTex THEN link ELSE rec

\* toggle_material_nodes, show_bake on: "only save the original if it's not"
\* saved yet and the Surface input is linked to another node than Bake_Texture.
SaveOriginalConnection(rec, link) ==
    IF rec = NoLink /\ link # NoLink /\ link[1] # BakeTex THEN link ELSE rec

\* toggle_material_nodes(obj, show): the Surface link and the saved
\* original connection it leaves.
toggle_material_nodes(show) ==
    IF BakeTex \notin nodes \/ MatOutput \notin nodes
    THEN [surface_link |-> surface_link,
          original_connection |-> original_connection]
    ELSE IF show
    THEN [surface_link |-> <<BakeTex, 0>>,
          original_connection |->
              SaveOriginalConnection(original_connection, surface_link)]
    ELSE [surface_link |->
              IF /\ original_connection # NoLink
                 /\ original_connection[1] \in nodes
                 /\ original_connection[2] < NumOutputs(original_connection[1])
              THEN original_connection
              ELSE <<BakeTex, 0>>,
          original_connection |-> original_connection]

\* EEVEE_OT_ToggleBakePreview.execute; the panel draws the button while not
\* baking. The saved connection is deleted once the preview is off.
TogglePreview ==
    /\ ~is_baking
    /\ PanelGetsEvents
    /\ IF materials
       THEN LET t == toggle_material_nodes(~show_bake)
            IN  /\ show_bake' = ~show_bake
                /\ surface_link' = t.surface_link
                /\ original_connection' =
                       IF show_bake THEN NoLink ELSE t.original_connection
                /\ pre_on_link' = IF show_bake THEN pre_on_link ELSE surface_link
       ELSE UNCHANGED <<show_bake, surface_link, original_connection, pre_on_link>>
    /\ cleanup_log' = NoCleanup
    /\ cleared_stale_cancel' = FALSE
    /\ UNCHANGED <<is_baking, should_cancel, progress, total_steps, auto_bake,
                   quality_preset, opVars, hostVars, materials, nodes>>

\* node_tree_changed_handler (depsgraph_update_post)
NodeTreeChanged ==
    /\ materials
    /\ show_bake' = is_bake_texture_connected(surface_link)
    /\ cleanup_log' = NoCleanup
    /\ cleared_stale_cancel' = FALSE
    /\ UNCHANGED <<is_baking, should_cancel, progress, total_steps, auto_bake,
                   quality_preset, opVars, hostVars, matVars, pre_on_link>>

\* The user links another output to the Surface input, or unlinks it.
LinkSources ==
    {NoLink} \cup {<<n, i>> : n \in nodes \ {MatOutput, BakeUV}, i \in 0..1}
UserRelink ==
    /\ materials
    /\ PanelGetsEvents
    /\ \E l \in LinkSources \ {surface_link} :
          /\ l # NoLink => l[2] < NumOutputs(l[1])
          /\ surface_link' = l
    /\ pre_on_link' = Unknown
    /\ cleanup_log' = NoCleanup
    /\ cleared_stale_cancel' = FALSE
    /\ UNCHANGED <<propsVars, opVars, hostVars, materials, nodes,
                   original_connection>>

\* TextureProjector.setup_material_nodes called on an existing projector
\* (TextureProjector.process calls it twice on the same one).
SetupMaterialNodes(o) ==
    /\ projector[o]
    /\ LET mat == setup_material_nodes(original_nodes[o])
       IN  /\ materials' = mat.materials
           /\ nodes' = mat.nodes
           /\ surface_link' = mat.surface_link
           /\ original_nodes' = [original_nodes EXCEPT ![o] = mat.original_nodes]
    /\ cleanup_log' = NoCleanup
    /\ cleared_stale_cancel' = FALSE
    /\ UNCHANGED <<propsVars, status, result, timer, projector, settings, camera, angles,
                   idx, shots, temp_files, hostVars, original_connection,
                   pre_on_link>>

\* SpecPreview starts where the panel offers the preview toggle: before any
\* bake, or after a single shot bake (whose render produced nothing) ended.
AfterSingleShot ==
    /\ is_baking = FALSE /\ should_cancel = FALSE
    /\ progress = 0 /\ total_steps = Len(SingleShotAngles)
    /\ auto_bake = FALSE
    /\ quality_preset = "BALANCED"
    /\ show_bake = FALSE
    /\ eevee = optimize_render_settings
    /\ status = [o \in Ops |-> IF o = 1 THEN "finished" ELSE "none"]
    /\ result = [o \in Ops |-> IF o = 1 THEN "FINISHED" ELSE None]
    /\ timer = [o \in Ops |-> o = 1]
    /\ projector = [o \in Ops |-> o = 1]
    /\ settings = [o \in Ops |-> IF o = 1 THEN <<NewSettings>> ELSE <<>>]
    /\ camera = [o \in Ops |-> o = 1]
    /\ angles = [o \in Ops |-> IF o = 1 THEN SingleShotAngles ELSE <<>>]
    /\ idx = [o \in Ops |-> 0]
    /\ shots = [o \in Ops |-> IF o = 1 THEN <<<<"current_view", 0>>>> ELSE <<>>]
    /\ temp_files = [o \in Ops |-> {}]
    /\ wm_timers = {} /\ scene_camera = {1}
    /\ images = {} /\ dup_images = FALSE /\ files = {}
    /\ temp_dir = FALSE /\ now = 0
    /\ materials = TRUE
    /\ nodes = {MatOutput, Principled, Emission, BakeUV, BakeTex}
    /\ surface_link \in {NoLink, <<Principled, 0>>, <<Emission, 0>>}
    /\ original_nodes = [o \in Ops |->
           IF o = 1 THEN CaptureOriginalNodes(<<>>, surface_link) ELSE <<>>]
    /\ original_connection = NoLink
    /\ cleanup_log = NoCleanup
    /\ cleared_stale_cancel = FALSE
    /\ pre_on_link = Unknown

InitPreview ==
    \/ /\ Registered
       /\ now = 0
       /\ materials = TRUE
       /\ nodes = {MatOutput, Principled, Emission}
       /\ surface_link \in {NoLink, <<Principled, 0>>, <<Emission, 0>>}
    \/ AfterSingleShot

NextPreview ==
    \/ TogglePreview
    \/ NodeTreeChanged
    \/ UserRelink
    \/ \E o \in Ops : SetupMaterialNodes(o)

SpecPreview == InitPreview /\ [][NextPreview]_vars

\* ===================================================================== claims

\* ------------------------------------------------------------------------ C1
\* C1: every temporary render artifact a bake run created (the image
\* datablock and the file in the temp directory) has been removed by the time
\* the run has ended, however it ended. The artifacts an operator's projector
\* tracks are the ones its run created: once the operator has ended, none of
\* them exists any more.
C1_ArtifactsRemovedWhenRunEnded ==
    \A o \in Ops :
        Ended(o) =>
            \A e \in temp_files[o] : e[1] \notin images /\ e[2] \notin files

\* ------------------------------------------------------------------------ C2
\* C2: cancellation is polled. Once should_cancel is set for a running
\* operator no further angle is processed (no projection, the angle index
\* stays) and only the operator's ending clears the flag; the operator's next
\* modal callback (a step that passes an event through, works on an angle, or
\* changes the operator's status or return value) runs cleanup (is_baking
\* false, timer removed, tracked artifacts dropped), resets should_cancel and
\* returns FINISHED.
C2_CancelPolledBeforeAngleWork ==
    [][\A o \in Ops :
          (status[o] = "running" /\ should_cancel) =>
              /\ shots'[o] = shots[o] /\ idx'[o] = idx[o]
              /\ ~should_cancel' => status'[o] = "finished"
              /\ (\/ status'[o] # status[o] \/ result'[o] # result[o]
                  \/ ModalPassThrough(o) \/ ModalAngle(o)) =>
                    /\ progress' = progress
                    /\ should_cancel' = FALSE
                    /\ result'[o] = "FINISHED"
                    /\ status'[o] = "finished"
                    /\ is_baking' = FALSE
                    /\ temp_files'[o] = {}
                    /\ o \notin wm_timers'
      ]_vars

\* A cancelled auto bake: it finished with angles left, after at least one
\* angle, and the flag is reset.
C2_CancelledMidSequence ==
    \E o \in Ops :
        /\ status[o] = "finished" /\ result[o] = "FINISHED"
        /\ angles[o] = generate_camera_angles
        /\ idx[o] > 0 /\ idx[o] < Len(angles[o])
        /\ Len(shots[o]) = idx[o]
        /\ ~should_cancel /\ ~is_baking

\* ------------------------------------------------------------------------ C3
\* C3: a failure while one camera angle is processed is logged and the angle
\* skipped; the remaining angles are still processed. So a timer callback of
\* a running auto bake with angles left and no cancellation pending always
\* leaves the operator running, on the next angle.
C3_FailedAngleSkippedRestProcessed ==
    [][\A o \in Ops :
          ModalAngle(o) =>
              /\ status'[o] = "running"
              /\ idx'[o] = idx[o] + 1
      ]_vars

\* ------------------------------------------------------------------------ C4
\* C4: when a setup step of execute fails, the run is aborted with CANCELLED,
\* no modal handler (and no timer) is left, and cleanup has run, so is_baking
\* is false.
C4_SetupFailureCleansUp ==
    [][\A o \in Ops :
          (Execute(o) /\ result'[o] = "CANCELLED") =>
              /\ status'[o] # "running"
              /\ o \notin wm_timers'
              /\ ~is_baking'
      ]_vars

C6_EveryTimerEventAdvancesOneAngle ==
    [][\A o \in Ops :
          auto_bake =>
              /\ (ModalAngle(o) \/ ModalFinish(o) \/ ModalCancel(o, "TIMER")) =>
                    /\ idx'[o] = idx[o] + 1
                    /\ Len(shots'[o]) = Len(shots[o]) + 1
              /\ (ModalPassThrough(o) \/ ModalCancel(o, "OTHER")) =>
                    UNCHANGED <<propsVars, status, timer, projector, settings, camera,
                                angles, idx, shots, temp_files, original_nodes,
                                hostVars, matVars>>
      ]_vars

\* C6 as the code has it: a timer event after which the operator is still
\* running advanced exactly one angle (index plus one, one projection
\* attempted); an event that ends the operator (a timer event when the
\* sequence is exhausted or the angle's processing raises, any event when a
\* cancellation is pending) advances none; an event that is not a timer
\* event advances none, and changes no bake state unless a cancellation is
\* pending.
C6_TimerEventAdvancesOneAngleOrEnds ==
    [][\A o \in Ops :
          (status[o] = "running" /\ auto_bake) =>
              /\ (ModalAngle(o) /\ status'[o] = "running") =>
                    /\ idx'[o] = idx[o] + 1
                    /\ Len(shots'[o]) = Len(shots[o]) + 1
              /\ status'[o] # "running" =>
                    /\ idx'[o] = idx[o]
                    /\ Len(shots'[o]) \in {Len(shots[o]), Len(shots[o]) + 1}
                    /\ ~ModalAngle(o) => shots'[o] = shots[o]
              /\ ModalPassThrough(o) =>
                    UNCHANGED <<propsVars, status, timer, projector, settings, camera,
                                angles, idx, shots, temp_files, original_nodes,
                                hostVars, matVars>>
      ]_vars

\* Two timer events in, two angles done, the bake still running.
C6_TwoTicksTwoAngles ==
    \E o \in Ops :
        /\ status[o] = "running" /\ auto_bake /\ is_baking
        /\ result[o] = "PASS_THROUGH"
        /\ idx[o] = 2 /\ Len(shots[o]) = 2 /\ progress = 2

\* ------------------------------------------------------------------------ C7
\* C7: an auto bake that is neither cancelled nor hit by an error has, when
\* it finishes, processed exactly the 12 shots below/total/upper x
\* 0/90/180/270, category-major, each pair once, and total_steps is 12.
C7_FixedTwelveShotSequence ==
    [][LET twelve == <<<<"below", 0>>, <<"below", 90>>, <<"below", 180>>,
                       <<"below", 270>>, <<"total", 0>>, <<"total", 90>>,
                       <<"total", 180>>, <<"total", 270>>, <<"upper", 0>>,
                       <<"upper", 90>>, <<"upper", 180>>, <<"upper", 270>>>>
       IN  \A o \in Ops :
              (/\ status[o] = "running" /\ auto_bake /\ ~should_cancel
               /\ status'[o] = "finished") =>
                  /\ shots'[o] = twelve
                  /\ Len(shots'[o]) = 12
                  /\ Cardinality({shots'[o][i] : i \in 1..Len(shots'[o])}) = 12
                  /\ total_steps' = 12
      ]_vars

\* An auto bake finished after its whole sequence.
C7_AutoBakeFinished ==
    \E o \in Ops :
        /\ status[o] = "finished" /\ auto_bake
        /\ idx[o] = 12 /\ Len(shots[o]) = 12
        /\ progress = 12 /\ total_steps = 12

\* ------------------------------------------------------------------------ C8
\* C8: toggling the preview on and then off restores the pre-bake
\* appearance: after the off toggle the Surface input is connected exactly as
\* it was before the on toggle (same node and socket, or unconnected).
C8_ToggleOnOffRestoresSurface ==
    [][(TogglePreview /\ materials /\ show_bake /\ ~show_bake'
        /\ pre_on_link # Unknown) =>
           surface_link' = pre_on_link
      ]_vars

\* ------------------------------------------------------------------------ C9
\* C9: capture of the original connection is idempotent: once a connection
\* is recorded for the material, a repeated toggle-on leaves
\* mat["original_connection"] as it is and a repeated setup_material_nodes
\* leaves the projector's original_nodes entry as it is.
C9_CaptureIdempotent ==
    [][/\ (TogglePreview /\ ~show_bake /\ show_bake'
           /\ original_connection # NoLink) =>
              original_connection' = original_connection
       /\ \A o \in Ops :
             (SetupMaterialNodes(o) /\ original_nodes[o] # <<>>) =>
                 original_nodes'[o] = original_nodes[o]
      ]_vars

\* A toggle-on that found another shader on the Surface input than the
\* recorded one, and kept the record.
C9_RepeatedToggleOnKeptRecord ==
    /\ show_bake /\ surface_link = <<BakeTex, 0>>
    /\ original_connection # NoLink
    /\ pre_on_link \notin {Unknown, NoLink}
    /\ pre_on_link[1] # BakeTex
    /\ pre_on_link # original_connection

\* ----------------------------------------------------------------------- C10
\* C10: the selected quality preset determines the render quality of the
\* run: when the first angle is about to be rendered, the scene's TAA sample
\* count and shadow cube and cascade sizes are the values the preferences
\* hold for the preset.
C10_PresetDeterminesRenderQuality ==
    \A o \in Ops :
        (status[o] = "running" /\ is_baking /\ idx[o] = 0 /\ shots[o] = <<>>) =>
            /\ eevee.taa = Preferences[quality_preset].taa
            /\ eevee.cube = Preferences[quality_preset].shadow
            /\ eevee.cascade = Preferences[quality_preset].shadow

\* ---------------------------------------------------------------------
\* C11. The bake camera at the end of a run. When an auto bake has ended (it
\* completed, it was cancelled, or its setup failed after the camera was
\* created) the "BakeCamera" object is gone from the scene; when a single
\* shot bake has ended the same ways, the camera it created is still there.
C11_CameraRemovedAfterAutoBakeKeptAfterSingleShot ==
    \A o \in Ops :
        (status[o] = "finished" \/ (status[o] = "cancelled" /\ camera[o]))
            => scene_camera = IF auto_bake THEN {} ELSE {o}

\* An auto bake that went through its twelve angles and one that was
\* cancelled midway have both been seen with the camera removed; so has a
\* finished single shot bake with its camera in the scene.
C11_AutoBakeEndedWithoutCamera ==
    \E o \in Ops :
        /\ status[o] = "finished" /\ result[o] = "FINISHED"
        /\ auto_bake /\ camera[o] /\ idx[o] = Len(angles[o])
        /\ Len(angles[o]) = Len(generate_camera_angles)
        /\ scene_camera = {}

\* ---------------------------------------------------------------------
\* C12. The ProjectionSettings of a run are not modified during the run: the
\* object the projector holds is the one execute constructed, and no step
\* taken while the operator runs (an angle, a single shot, a pass-through,
\* the cancellation, the finishing cleanup, an exception) changes a field
\* of it.
C12_SettingsUnchangedDuringRun ==
    [][\A o \in Ops :
          /\ (status[o] # "running" /\ status'[o] = "running")
                => settings'[o] = <<NewSettings>>
          /\ status[o] = "running" => settings'[o] = settings[o]]_vars

\* An auto bake has projected all its angles and ended, and the settings its
\* projector holds are still the ones it was constructed with.
C12_SettingsIntactAfterAllProjections ==
    \E o \in Ops :
        /\ status[o] = "finished"
        /\ Len(shots[o]) = Len(generate_camera_angles)
        /\ settings[o] = <<NewSettings>>

\* ---------------------------------------------------------------------
\* C13. Every cancel request issued while a bake runs is eventually honoured:
\* if events keep being delivered, an operator that is running while
\* should_cancel is set reaches its cleanup and returns FINISHED, with
\* is_baking and should_cancel both false, whatever other operators (a new
\* bake included) run in between.
C13_CancelEventuallyHonoured ==
    \A o \in Ops :
        (status[o] = "running" /\ should_cancel)
            ~> (/\ status[o] = "finished" /\ result[o] = "FINISHED"
                /\ ~is_baking /\ ~should_cancel)

\* ---------------------------------------------------------------------
\* C14. A started auto bake terminates. While events keep being delivered a
\* running operator stops running; unless an error ends it, it returns
\* FINISHED. Without a cancellation it does so on the timer event that
\* follows its twelve angle events, the thirteenth, never earlier; that
\* event leaves is_baking false, and is_baking stays false until a bake is
\* started again.
C14_AutoBakeTerminatesOnThirteenthTimerEvent ==
    /\ \A o \in Ops :
          (status[o] = "running" /\ auto_bake)
              ~> (status[o] \in {"finished", "errored"})
    /\ [][/\ \A o \in Ops :
                (/\ status[o] = "running" /\ status'[o] = "finished"
                 /\ auto_bake /\ ~should_cancel)
                    => /\ idx[o] = Len(generate_camera_angles)
                       /\ result'[o] = "FINISHED"
                       /\ ~is_baking'
          /\ (~is_baking /\ is_baking')
                => \E o \in Ops : /\ status[o] # "running"
                                  /\ status'[o] \in {"running", "cancelled"}
                                  /\ idx'[o] = 0]_vars

\* An auto bake that was not cancelled has returned FINISHED after its twelve
\* angle events, with the progress at twelve of twelve and is_baking false.
C14_FinishedAfterTwelveAngles ==
    \E o \in Ops :
        /\ status[o] = "finished" /\ result[o] = "FINISHED"
        /\ auto_bake /\ ~should_cancel /\ ~is_baking
        /\ idx[o] = Len(generate_camera_angles)
        /\ progress = idx[o] /\ total_steps = progress

\* ---------------------------------------------------------------------
\* C15. is_baking is true exactly while a bake operator is running: it is
\* never false while a modal handler is registered and never true when none
\* is.
C15_IsBakingIffOperatorRunning ==
    is_baking <=> \E o \in Ops : status[o] = "running"

\* ---------------------------------------------------------------------
\* C16. With bakes started from the panel only (the Bake button is offered
\* while is_baking is false), at most one bake operator is running at any
\* time: no interleaving of Bake, Cancel and event deliveries leads to two
\* registered modal handlers.
C16_AtMostOneBakeOperatorRunning ==
    Cardinality({o \in Ops : status[o] = "running"}) <= 1

\* Bake, then Cancel: the operator is still running and is_baking is already
\* false, so the panel draws the Bake button again.
C16_BakeButtonDrawnWhileOperatorRuns ==
    \E o \in Ops :
        /\ status[o] = "running" /\ o \in wm_timers
        /\ ~is_baking /\ should_cancel
        /\ \A p \in Ops \ {o} : status[p] # "running"

\* ---------------------------------------------------------------------
\* C17. A should_cancel flag left set while no bake is running does not
\* cancel the next bake: the execute that starts an operator leaves
\* should_cancel false (and is_baking true) before the operator's first modal
\* callback, and should_cancel is only set again by a cancel request, which
\* the panel accepts while is_baking is true.
C17_ExecuteClearsStaleCancel ==
    [][/\ \A o \in Ops :
             (status[o] # "running" /\ status'[o] = "running")
                 => /\ ~should_cancel' /\ is_baking'
                    /\ result'[o] = "RUNNING_MODAL"
       /\ cleared_stale_cancel'
             => /\ should_cancel /\ ~should_cancel'
                /\ \E o \in Ops : status[o] # "running" /\ status'[o] = "running"
       /\ (~should_cancel /\ should_cancel') => (is_baking /\ ~is_baking')]_vars

\* A bake has just been started while should_cancel was set with no operator
\* running; the operator is running, no callback has run yet, and the flag is
\* false.
C17_BakeStartedOverStaleCancel ==
    /\ cleared_stale_cancel
    /\ ~should_cancel /\ is_baking
    /\ \E o \in Ops : status[o] = "running" /\ result[o] = "RUNNING_MODAL"

\* ---------------------------------------------------------------------
\* C18. In every reachable state 0 <= progress <= total_steps, and while an
\* auto bake is running and has not been cancelled, progress is the number
\* of camera angles processed so far.
C18_ProgressWithinTotalAndCountsAngles ==
    /\ 0 <= progress /\ progress <= total_steps
    /\ \A o \in Ops :
          (status[o] = "running" /\ auto_bake /\ ~should_cancel)
              => progress = idx[o]

\* ---------------------------------------------------------------------
\* C19. When a bake that was not cancelled finishes, in auto or in single
\* shot mode, progress equals total_steps.
C19_ProgressCompleteWhenBakeFinishes ==
    [][\A o \in Ops :
          (status[o] = "running" /\ status'[o] = "finished" /\ ~should_cancel)
              => progress' = total_steps']_vars

\* ---------------------------------------------------------------------
\* C20. No timer outlives its operator: once a bake operator that registered
\* a timer has stopped running (it completed, it was cancelled, its setup
\* failed after the registration, or a modal callback raised), its timer is
\* no longer registered with the window manager.
C20_NoTimerOutlivesItsOperator ==
    \A o \in Ops : status[o] # "running" => o \notin wm_timers

\* ---------------------------------------------------------------------
\* C21. Within one bake run every temporary render that is recorded gets a
\* file path and an image name that no artifact already recorded in
\* temp_files has, also when two renders fall into the same clock second: an
\* angle event that records a render (the list changes, or an image datablock
\* is loaded under a name that is taken) adds an entry whose name and whose
\* path are both new to the list.
C21_RecordedRenderHasFreshNameAndPath ==
    [][\A o \in Ops :
          (/\ ModalAngle(o)
           /\ \/ temp_files'[o] # temp_files[o]
              \/ dup_images' /\ ~dup_images)
              => \E e \in temp_files'[o] \ temp_files[o] :
                    /\ e[1] \notin {x[1] : x \in temp_files[o]}
                    /\ e[2] \notin {x[2] : x \in temp_files[o]}]_vars

\* ---------------------------------------------------------------------
\* C22. After the toggle operator has executed on an active mesh object that
\* has materials, show_bake is true exactly if the Bake_Texture node is the
\* one linked to the Material Output's Surface input, the relation the
\* node-tree change handler enforces.
C22_ToggleLeavesShowBakeIffBakeConnected ==
    [][(TogglePreview /\ materials)
          => (show_bake' <=> is_bake_texture_connected(surface_link'))]_vars

=============================================================================
